---- MODULE Spec2Model ----
(***************************************************************************)
(* Model of map_detection/detectors/detectors.py: the three detectors      *)
(* detect_request_bundle, detect_frontend_integration and                  *)
(* detect_information_holder_resource.  Each detector is a call frame (a   *)
(* record of its parameters and locals, named as in the source) that is    *)
(* advanced one loop iteration at a time.  The print() notifications do    *)
(* not change any value that is returned and are left out.                 *)
(***************************************************************************)
EXTENDS Integers, Sequences, FiniteSets

VARIABLES bundle, frontend, ihr

vars == <<bundle, frontend, ihr>>

(* ---------------------------- bounds ----------------------------------- *)
MaxLen == 6
MaxThreshold == 3
MaxEdges == 3

(* ---------------------------- inputs ----------------------------------- *)
\* Python's None; it is unequal to every key tuple and to every set option.
None == <<>>

\* Calls without their timestamp: two service pairs, three endpoint keys.
CallKinds == { <<"A", "B", "e1">>, <<"A", "B", "e2">>, <<"C", "D", "e1">> }

\* A pipeline is a list of (time, from_service, to_service, endpoint).
Pipelines ==
    UNION { { [i \in 1..n |-> <<i>> \o c[i]] : c \in [1..n -> CallKinds] }
            : n \in 0..MaxLen }

Thresholds == 0..MaxThreshold

Names == {"a", "b", "c"}

\* Node lists of a graph, in insertion order.
NodeLists ==
    { s \in UNION { [1..n -> Names] : n \in 0..Cardinality(Names) } :
        \A i, j \in DOMAIN s : i # j => s[i] # s[j] }

Range(s) == { s[i] : i \in DOMAIN s }

RECURSIVE MultiEdges(_, _)
\* Edge multiplicities of a multigraph over ns with at most k edges.
MultiEdges(ns, k) ==
    IF k = 0 THEN { [p \in ns \X ns |-> 0] }
    ELSE LET S == MultiEdges(ns, k - 1)
         IN  S \cup { [m EXCEPT ![p] = @ + 1] : m \in S, p \in ns \X ns }

\* networkx.MultiDiGraph: ordered nodes and a multiplicity per ordered pair.
MultiDiGraphs ==
    UNION { { [nodes |-> s, mult |-> m] : m \in MultiEdges(Range(s), MaxEdges) }
            : s \in NodeLists }

\* An optional set argument: None, or a one-element tuple holding the set.
SetArgs == {None} \cup { <<S>> : S \in SUBSET Names }

EmptyGraph == [nodes |-> <<>>, mult |-> [p \in {} \X {} |-> 0]]

(* ------------------------ detect_request_bundle ------------------------ *)
BundleEntry(pipeline, threshold_service, threshold_endpoint) ==
    [ pc |-> "loop", pipeline |-> pipeline, i |-> 1,
      threshold_service |-> threshold_service,
      threshold_endpoint |-> threshold_endpoint,
      bundles_service |-> <<>>, bundles_endpoint |-> <<>>,
      last_call_service |-> None, last_call_endpoint |-> None,
      count_service |-> 1, count_endpoint |-> 1 ]

\* Lines 46, 48-57 with the finding put at the front of the list.
BundleServiceStepPrepend(f, call) ==
    LET current_call_service == <<call[2], call[3]>>
    IN  IF current_call_service = f.last_call_service
        THEN [f EXCEPT !.count_service = @ + 1]
        ELSE IF f.count_service >= f.threshold_service
             THEN IF f.last_call_service = None
                  THEN [f EXCEPT !.pc = "raised"]
                  ELSE [f EXCEPT !.bundles_service =
                                   << f.last_call_service \o <<f.count_service>> >> \o @,
                                 !.count_service = 1,
                                 !.last_call_service = current_call_service]
             ELSE [f EXCEPT !.count_service = 1,
                            !.last_call_service = current_call_service]

\* Lines 46, 48-57.  Unpacking *last_call_service when it is None raises
\* TypeError, which ends the call.
BundleServiceStep(f, call) ==
    LET current_call_service == <<call[2], call[3]>>
    IN  IF current_call_service = f.last_call_service
        THEN [f EXCEPT !.count_service = @ + 1]
        ELSE IF f.count_service >= f.threshold_service
             THEN IF f.last_call_service = None
                  THEN [f EXCEPT !.pc = "raised"]
                  ELSE [f EXCEPT !.bundles_service =
                                   Append(@, f.last_call_service \o <<f.count_service>>),
                                 !.count_service = 1,
                                 !.last_call_service = current_call_service]
             ELSE [f EXCEPT !.count_service = 1,
                            !.last_call_service = current_call_service]

\* Lines 47, 59-68.
BundleEndpointStep(f, call) ==
    LET current_call_endpoint == <<call[2], call[3], call[4]>>
    IN  IF current_call_endpoint = f.last_call_endpoint
        THEN [f EXCEPT !.count_endpoint = @ + 1]
        ELSE IF f.count_endpoint >= f.threshold_endpoint
             THEN IF f.last_call_endpoint = None
                  THEN [f EXCEPT !.pc = "raised"]
                  ELSE [f EXCEPT !.bundles_endpoint =
                                   Append(@, f.last_call_endpoint \o <<f.count_endpoint>>),
                                 !.count_endpoint = 1,
                                 !.last_call_endpoint = current_call_endpoint]
             ELSE [f EXCEPT !.count_endpoint = 1,
                            !.last_call_endpoint = current_call_endpoint]

\* One iteration of the for loop (lines 45-68) on the call at position f.i.
BundleStep(f) ==
    LET call == f.pipeline[f.i]
        s    == BundleServiceStep(f, call)
    IN  IF s.pc = "raised" THEN s
        ELSE LET e == BundleEndpointStep(s, call)
             IN  IF e.pc = "raised" THEN e ELSE [e EXCEPT !.i = @ + 1]

BundleFinishFlush(f) ==
    [f EXCEPT !.pc = "returned",
              !.bundles_service =
                  IF f.last_call_service # None
                     /\ f.count_service >= f.threshold_service
                  THEN Append(@, f.last_call_service \o <<f.count_service>>)
                  ELSE @,
              !.bundles_endpoint =
                  IF f.last_call_endpoint # None
                     /\ f.count_endpoint >= f.threshold_endpoint
                  THEN Append(@, f.last_call_endpoint \o <<f.count_endpoint>>)
                  ELSE @]

\* Line 70: the loop is exhausted and the two lists are returned as they are.
BundleFinish(f) == [f EXCEPT !.pc = "returned"]

RECURSIVE BundleRun(_)
BundleRun(f) ==
    IF f.pc # "loop" THEN f
    ELSE IF f.i > Len(f.pipeline) THEN BundleFinish(f)
    ELSE BundleRun(BundleStep(f))

\* The whole call; the result frame has pc "returned" or "raised".
detect_request_bundle(pipeline, threshold_service, threshold_endpoint) ==
    BundleRun(BundleEntry(pipeline, threshold_service, threshold_endpoint))

BundleIdle == [BundleEntry(<<>>, 2, 2) EXCEPT !.pc = "idle"]

BundleIter ==
    /\ bundle.pc = "loop"
    /\ bundle.i <= Len(bundle.pipeline)
    /\ bundle' = BundleStep(bundle)
    /\ UNCHANGED <<frontend, ihr>>

BundleReturn ==
    /\ bundle.pc = "loop"
    /\ bundle.i > Len(bundle.pipeline)
    /\ bundle' = BundleFinish(bundle)
    /\ UNCHANGED <<frontend, ihr>>

(* ------------------------- networkx.DiGraph(G) ------------------------- *)
\* Line 102 / 155: the simple directed graph; parallel edges collapse.
DiGraph(G) ==
    [nodes |-> G.nodes, edges |-> { p \in DOMAIN G.mult : G.mult[p] > 0 }]

pred(D, n) == { e[1] : e \in { x \in D.edges : x[2] = n } }

succ(D, n) == { e[2] : e \in { x \in D.edges : x[1] = n } }

in_degree(D, n) == Cardinality(pred(D, n))

out_degree(D, n) == Cardinality(succ(D, n))

(* --------------------- detect_frontend_integration --------------------- *)
\* Lines 99-105.
FIEntry(G, frontend_services_arg) ==
    [ pc |-> "loop", G |-> G, frontend_services_arg |-> frontend_services_arg,
      frontend_services |->
          IF frontend_services_arg = None THEN {} ELSE frontend_services_arg[1],
      D |-> DiGraph(G), k |-> 1,
      frontend_candidates |-> {}, frontend_violators |-> {} ]

FIStepNoOutCheck(f, node) ==
    IF in_degree(f.D, node) = 0
    THEN [f EXCEPT !.frontend_candidates = @ \cup {node}]
    ELSE IF node \in f.frontend_services
         THEN [f EXCEPT !.frontend_violators = @ \cup {node}]
         ELSE f

FIStepAssign(f, node) ==
    IF in_degree(f.D, node) = 0
    THEN IF out_degree(f.D, node) > 0
         THEN [f EXCEPT !.frontend_candidates = @ \cup {node}]
         ELSE f
    ELSE IF node \in f.frontend_services
         THEN [f EXCEPT !.frontend_violators = {node}]
         ELSE f

\* Lines 108-117: the body of the loop for one (node, in_degree).
FIStep(f, node) ==
    IF in_degree(f.D, node) = 0
    THEN IF out_degree(f.D, node) > 0
         THEN [f EXCEPT !.frontend_candidates = @ \cup {node}]
         ELSE f
    ELSE IF node \in f.frontend_services
         THEN [f EXCEPT !.frontend_violators = @ \cup {node}]
         ELSE f

\* Line 119.
FIFinish(f) == [f EXCEPT !.pc = "returned"]

RECURSIVE FIVisit(_, _)
\* The loop of line 107 visiting the nodes in the given order.
FIVisit(f, order) ==
    IF order = <<>> THEN FIFinish(f)
    ELSE FIVisit(FIStep(f, Head(order)), Tail(order))

\* The whole call, the loop running in the graph's node order.
detect_frontend_integration(G, frontend_services_arg) ==
    LET f == FIEntry(G, frontend_services_arg) IN FIVisit(f, f.D.nodes)

FIIdle == [FIEntry(EmptyGraph, None) EXCEPT !.pc = "idle"]

FIIter ==
    /\ frontend.pc = "loop"
    /\ frontend.k <= Len(frontend.D.nodes)
    /\ frontend' = [FIStep(frontend, frontend.D.nodes[frontend.k])
                       EXCEPT !.k = @ + 1]
    /\ UNCHANGED <<bundle, ihr>>

FIReturn ==
    /\ frontend.pc = "loop"
    /\ frontend.k > Len(frontend.D.nodes)
    /\ frontend' = FIFinish(frontend)
    /\ UNCHANGED <<bundle, ihr>>

(* ----------------- detect_information_holder_resource ------------------ *)
IHREntryKnownOnly(G, database_services_arg) ==
    LET database_services ==
            IF database_services_arg = None THEN {} ELSE database_services_arg[1]
    IN  [ pc |-> "loop", G |-> G, database_services_arg |-> database_services_arg,
          database_services |-> database_services,
          D |-> DiGraph(G), k |-> 1,
          ihr_candidates |-> {}, ihr_violators |-> {},
          database_call_violators |-> {},
          database_no_ihr_violators |-> database_services \cap Range(G.nodes) ]

\* Lines 153-160; database_no_ihr_violators starts as a copy of the set.
IHREntry(G, database_services_arg) ==
    LET database_services ==
            IF database_services_arg = None THEN {} ELSE database_services_arg[1]
    IN  [ pc |-> "loop", G |-> G, database_services_arg |-> database_services_arg,
          database_services |-> database_services,
          D |-> DiGraph(G), k |-> 1,
          ihr_candidates |-> {}, ihr_violators |-> {},
          database_call_violators |-> {},
          database_no_ihr_violators |-> database_services ]

\* Lines 166-177 with the succ test of line 168 dropped.
IHRPairStepAlwaysCandidate(f, node) ==
    LET preds == pred(f.D, node)
    IN  IF Cardinality(preds) = 1
        THEN LET p == CHOOSE n \in preds : TRUE
             IN  [f EXCEPT !.ihr_candidates = @ \cup {<<p, node>>},
                           !.database_no_ihr_violators = @ \ {node}]
        ELSE f

\* Lines 166-177 with the discard of line 177 inside the candidate branch.
IHRPairStepDiscardInBranch(f, node) ==
    LET preds == pred(f.D, node)
    IN  IF Cardinality(preds) = 1
        THEN LET p == CHOOSE n \in preds : TRUE
             IN  IF Cardinality(succ(f.D, p)) = 1
                 THEN [f EXCEPT !.ihr_candidates = @ \cup {<<p, node>>},
                                !.database_no_ihr_violators = @ \ {node}]
                 ELSE [f EXCEPT !.ihr_violators = @ \cup {<<p, node>>}]
        ELSE f

\* Lines 166-177: the node is a store (no outgoing calls, or declared).
IHRPairStep(f, node) ==
    LET preds == pred(f.D, node)
    IN  IF Cardinality(preds) = 1
        THEN LET p == CHOOSE n \in preds : TRUE
             IN  IF Cardinality(succ(f.D, p)) = 1
                 THEN [f EXCEPT !.ihr_candidates = @ \cup {<<p, node>>},
                                !.database_no_ihr_violators = @ \ {node}]
                 ELSE [f EXCEPT !.ihr_violators = @ \cup {<<p, node>>},
                                !.database_no_ihr_violators = @ \ {node}]
        ELSE f

\* Lines 178-179 taken only when the store branch of line 165 was not.
IHRCallStepElif(f, node) ==
    LET zero_degree == out_degree(f.D, node) = 0
        is_database == node \in f.database_services
    IN  IF ~(zero_degree \/ is_database) /\ ~zero_degree /\ is_database
        THEN [f EXCEPT !.database_call_violators = @ \cup {node}]
        ELSE f

\* Lines 178-179.
IHRCallStep(f, node) ==
    LET zero_degree == out_degree(f.D, node) = 0
        is_database == node \in f.database_services
    IN  IF ~zero_degree /\ is_database
        THEN [f EXCEPT !.database_call_violators = @ \cup {node}]
        ELSE f

\* Lines 163-182: the body of the loop for one (node, out_degree).
IHRStep(f, node) ==
    LET zero_degree == out_degree(f.D, node) = 0
        is_database == node \in f.database_services
        g == IF zero_degree \/ is_database THEN IHRPairStep(f, node) ELSE f
    IN  IHRCallStep(g, node)

\* Line 188.
IHRFinish(f) == [f EXCEPT !.pc = "returned"]

RECURSIVE IHRVisit(_, _)
\* The loop of line 162 visiting the nodes in the given order.
IHRVisit(f, order) ==
    IF order = <<>> THEN IHRFinish(f)
    ELSE IHRVisit(IHRStep(f, Head(order)), Tail(order))

\* The whole call, the loop running in the graph's node order.
detect_information_holder_resource(G, database_services_arg) ==
    LET f == IHREntry(G, database_services_arg) IN IHRVisit(f, f.D.nodes)

IHRIdle == [IHREntry(EmptyGraph, None) EXCEPT !.pc = "idle"]

IHRIter ==
    /\ ihr.pc = "loop"
    /\ ihr.k <= Len(ihr.D.nodes)
    /\ ihr' = [IHRStep(ihr, ihr.D.nodes[ihr.k]) EXCEPT !.k = @ + 1]
    /\ UNCHANGED <<bundle, frontend>>

IHRReturn ==
    /\ ihr.pc = "loop"
    /\ ihr.k > Len(ihr.D.nodes)
    /\ ihr' = IHRFinish(ihr)
    /\ UNCHANGED <<bundle, frontend>>

(* --------------------------- specification ----------------------------- *)
\* One detector is called, on any input within the bounds.
InitBundle ==
    /\ \E p \in Pipelines, ts \in Thresholds, te \in Thresholds :
           bundle = BundleEntry(p, ts, te)
    /\ frontend = FIIdle
    /\ ihr = IHRIdle

InitFrontend ==
    /\ \E G \in MultiDiGraphs, a \in SetArgs : frontend = FIEntry(G, a)
    /\ bundle = BundleIdle
    /\ ihr = IHRIdle

InitIHR ==
    /\ \E G \in MultiDiGraphs, a \in SetArgs : ihr = IHREntry(G, a)
    /\ bundle = BundleIdle
    /\ frontend = FIIdle

Init == InitBundle \/ InitFrontend \/ InitIHR

Next ==
    \/ BundleIter
    \/ BundleReturn
    \/ FIIter
    \/ FIReturn
    \/ IHRIter
    \/ IHRReturn

Spec == Init /\ [][Next]_vars

(* ------------------- definitions used by the properties ---------------- *)
ServiceKeys(p) == [i \in 1..Len(p) |-> <<p[i][2], p[i][3]>>]

EndpointKeys(p) == [i \in 1..Len(p) |-> <<p[i][2], p[i][3], p[i][4]>>]

\* Length of the run of equal keys that ends at position i.
RunLenAt(keys, i) ==
    Cardinality({ j \in 1..i : \A m \in j..i : keys[m] = keys[i] })

\* Position i ends a maximal run that is followed by a different key.
ClosesRun(keys, i) == i < Len(keys) /\ keys[i] # keys[i + 1]

RECURSIVE ExpectedBundles(_, _, _)
\* Findings (key, N) of the closed maximal runs of length N >= T, from
\* position i on, in pipeline order.
ExpectedBundles(keys, T, i) ==
    IF i >= Len(keys) THEN <<>>
    ELSE (IF ClosesRun(keys, i) /\ RunLenAt(keys, i) >= T
          THEN << keys[i] \o <<RunLenAt(keys, i)>> >>
          ELSE <<>>) \o ExpectedBundles(keys, T, i + 1)

TrailingRunLen(keys) == IF keys = <<>> THEN 0 ELSE RunLenAt(keys, Len(keys))

RECURSIVE CountSum(_)
\* Sum of the counts (last component) of a list of findings.
CountSum(bs) ==
    IF bs = <<>> THEN 0 ELSE Head(bs)[Len(Head(bs))] + CountSum(Tail(bs))

\* Degrees read off the multigraph: an ordered pair counts once however
\* many parallel edges it has, a self-loop counts as incoming and outgoing.
NodeSet(G) == Range(G.nodes)

Callers(G, n) == { u \in NodeSet(G) : G.mult[<<u, n>>] > 0 }

Callees(G, n) == { v \in NodeSet(G) : G.mult[<<n, v>>] > 0 }

Perms(s) ==
    { t \in [1..Len(s) -> Range(s)] : \A i, j \in 1..Len(s) : i # j => t[i] # t[j] }

ArgSet(a) == IF a = None THEN {} ELSE a[1]

Pairs(f) == f.ihr_candidates \cup f.ihr_violators

\* The name occurs in one of the pairs of the set.
InPair(n, ps) == \E q \in ps : q[1] = n \/ q[2] = n

(* ------------------------------- C1 ------------------------------------ *)
\* C1: with a service threshold T of at least 2, bundles_service is at every
\* point of the loop exactly the list of findings (from, to, N) of the
\* maximal runs of N >= T equal (from, to) keys that have been closed by a
\* call with a different key so far, one per run and in pipeline order, and
\* that is the list the call returns; bundles_endpoint obeys the same rule
\* on the key (from, to, endpoint); with both thresholds at least 2 the
\* call does return.
C1_ClosedRunsReported ==
    /\ bundle.pc \in {"loop", "returned"} =>
           LET seen == SubSeq(bundle.pipeline, 1, bundle.i - 1)
           IN  /\ bundle.threshold_service >= 2 =>
                      bundle.bundles_service =
                          ExpectedBundles(ServiceKeys(seen),
                                          bundle.threshold_service, 1)
               /\ bundle.threshold_endpoint >= 2 =>
                      bundle.bundles_endpoint =
                          ExpectedBundles(EndpointKeys(seen),
                                          bundle.threshold_endpoint, 1)
    /\ bundle.pc = "returned" => bundle.i = Len(bundle.pipeline) + 1
    /\ (bundle.threshold_service >= 2 /\ bundle.threshold_endpoint >= 2)
           => bundle.pc # "raised"

\* A->B three times, C->D twice, then A->B, with both thresholds 2, has
\* returned the two findings in the order their runs were closed.
C1_Witness ==
    /\ bundle.pc = "returned"
    /\ bundle.threshold_service = 2
    /\ bundle.threshold_endpoint = 2
    /\ ServiceKeys(bundle.pipeline) =
           << <<"A", "B">>, <<"A", "B">>, <<"A", "B">>,
              <<"C", "D">>, <<"C", "D">>, <<"A", "B">> >>
    /\ bundle.bundles_service = << <<"A", "B", 3>>, <<"C", "D", 2>> >>
    /\ bundle.bundles_endpoint = << <<"A", "B", "e1", 3>>, <<"C", "D", "e1", 2>> >>

(* ------------------------------- C2 ------------------------------------ *)
\* C2: a finding is appended only by a loop iteration whose call has a key
\* different from the tracked previous key, and it is the finding of that
\* previous key; returning appends nothing, so the counts of the returned
\* findings fit in the part of the pipeline before the trailing run.
C2_TrailingRunNotEmitted ==
    [][ /\ bundle'.bundles_service # bundle.bundles_service =>
               /\ bundle.pc = "loop"
               /\ bundle.i <= Len(bundle.pipeline)
               /\ ServiceKeys(bundle.pipeline)[bundle.i] # bundle.last_call_service
               /\ bundle'.bundles_service =
                      Append(bundle.bundles_service,
                             bundle.last_call_service \o <<bundle.count_service>>)
        /\ bundle'.bundles_endpoint # bundle.bundles_endpoint =>
               /\ bundle.pc = "loop"
               /\ bundle.i <= Len(bundle.pipeline)
               /\ EndpointKeys(bundle.pipeline)[bundle.i] # bundle.last_call_endpoint
               /\ bundle'.bundles_endpoint =
                      Append(bundle.bundles_endpoint,
                             bundle.last_call_endpoint \o <<bundle.count_endpoint>>)
        /\ bundle'.pc = "returned" =>
               /\ CountSum(bundle'.bundles_service)
                      <= Len(bundle.pipeline)
                         - TrailingRunLen(ServiceKeys(bundle.pipeline))
               /\ CountSum(bundle'.bundles_endpoint)
                      <= Len(bundle.pipeline)
                         - TrailingRunLen(EndpointKeys(bundle.pipeline))
      ]_vars

\* The call has returned nothing although the whole pipeline is one run
\* that meets both thresholds.
C2_Witness ==
    /\ bundle.pc = "returned"
    /\ bundle.threshold_service = 2
    /\ bundle.threshold_endpoint = 2
    /\ TrailingRunLen(EndpointKeys(bundle.pipeline)) = Len(bundle.pipeline)
    /\ Len(bundle.pipeline) >= 3
    /\ bundle.bundles_service = <<>>
    /\ bundle.bundles_endpoint = <<>>

(* ------------------------------- C3 ------------------------------------ *)
\* C3: with both thresholds positive the call raises no error, an empty
\* pipeline returns two empty lists, and no finding is built from the None
\* sentinel (every finding is a key followed by its count).
C3_Total ==
    bundle.pc # "idle" =>
        /\ (bundle.threshold_service >= 1 /\ bundle.threshold_endpoint >= 1)
               => bundle.pc # "raised"
        /\ (bundle.pc = "returned" /\ bundle.pipeline = <<>>)
               => (bundle.bundles_service = <<>> /\ bundle.bundles_endpoint = <<>>)
        /\ \A j \in DOMAIN bundle.bundles_service :
               Len(bundle.bundles_service[j]) = 3
        /\ \A j \in DOMAIN bundle.bundles_endpoint :
               Len(bundle.bundles_endpoint[j]) = 4

(* ------------------------------- C4 ------------------------------------ *)
\* C4 as stated: a declared name that is not a node of the graph occurs in
\* none of the returned collections of either graph detector.
C4_UnknownNamesNoOp ==
    /\ frontend.pc = "returned" =>
           \A n \in frontend.frontend_services \ NodeSet(frontend.G) :
               n \notin frontend.frontend_candidates \cup frontend.frontend_violators
    /\ ihr.pc = "returned" =>
           \A n \in ihr.database_services \ NodeSet(ihr.G) :
               /\ ~InPair(n, Pairs(ihr))
               /\ n \notin ihr.database_call_violators
               /\ n \notin ihr.database_no_ihr_violators

\* C4 amended: an unknown name in frontend_services occurs in neither
\* returned set; an unknown name in database_services is returned in
\* database_no_ihr_violators and occurs in no pair and not in
\* database_call_violators.
C4_UnknownNames ==
    /\ frontend.pc = "returned" =>
           \A n \in frontend.frontend_services \ NodeSet(frontend.G) :
               n \notin frontend.frontend_candidates \cup frontend.frontend_violators
    /\ ihr.pc = "returned" =>
           \A n \in ihr.database_services \ NodeSet(ihr.G) :
               /\ ~InPair(n, Pairs(ihr))
               /\ n \notin ihr.database_call_violators
               /\ n \in ihr.database_no_ihr_violators

\* The call returned for a non-empty graph and a declared store "c" that is
\* not one of its nodes.
C4_Witness ==
    /\ ihr.pc = "returned"
    /\ ihr.G.nodes = <<"a", "b">>
    /\ ihr.G.mult[<<"a", "b">>] = 1
    /\ ihr.database_services = {"b", "c"}
    /\ ihr.database_no_ihr_violators = {"c"}

(* ------------------------------- C5 ------------------------------------ *)
\* C5: the returned candidates are the nodes without callers that call some
\* node, the returned violators are the declared frontends that have a
\* caller, and the two sets are disjoint.
C5_FrontendClassification ==
    frontend.pc = "returned" =>
        LET G == frontend.G IN
        /\ frontend.frontend_candidates =
               { n \in NodeSet(G) : Callers(G, n) = {} /\ Callees(G, n) # {} }
        /\ frontend.frontend_violators =
               { n \in NodeSet(G) \cap ArgSet(frontend.frontend_services_arg) :
                     Callers(G, n) # {} }
        /\ frontend.frontend_candidates \cap frontend.frontend_violators = {}
        /\ \A n \in ArgSet(frontend.frontend_services_arg) \cap NodeSet(G) :
               Callers(G, n) = {} => n \notin frontend.frontend_violators

\* Declared frontends "a" (no caller, calls b twice) and "b" (called, and
\* with a self-loop): a is the candidate, b the violator.
C5_Witness ==
    /\ frontend.pc = "returned"
    /\ frontend.G.nodes = <<"a", "b">>
    /\ frontend.G.mult[<<"a", "b">>] = 2
    /\ frontend.G.mult[<<"b", "b">>] = 1
    /\ frontend.frontend_services = {"a", "b"}
    /\ frontend.frontend_candidates = {"a"}
    /\ frontend.frontend_violators = {"b"}

(* ------------------------------- C6 ------------------------------------ *)
\* C6: the reported pairs are exactly the (p, s) where s is a node that has
\* no outgoing call or is declared, and p is the only caller of s; the pair
\* is a candidate iff p calls exactly one node and a violator otherwise,
\* never both, and a store occurs in at most one pair.
C6_PairClassification ==
    ihr.pc = "returned" =>
        LET G  == ihr.G
            db == ArgSet(ihr.database_services_arg)
            expected ==
                { q \in NodeSet(G) \X NodeSet(G) :
                      /\ Callees(G, q[2]) = {} \/ q[2] \in db
                      /\ Callers(G, q[2]) = {q[1]} }
        IN  /\ Pairs(ihr) = expected
            /\ ihr.ihr_candidates =
                   { q \in expected : Cardinality(Callees(G, q[1])) = 1 }
            /\ ihr.ihr_candidates \cap ihr.ihr_violators = {}
            /\ \A q1, q2 \in Pairs(ihr) : q1[2] = q2[2] => q1 = q2

\* b -> c makes (b, c) a candidate, a -> b and a -> a make (a, b) a
\* violator for the declared store b.
C6_Witness ==
    /\ ihr.pc = "returned"
    /\ ihr.ihr_candidates = {<<"b", "c">>}
    /\ ihr.ihr_violators = {<<"a", "b">>}

(* ------------------------------- C7 ------------------------------------ *)
\* C7: the returned database_no_ihr_violators is database_services without
\* the declared stores that have exactly one caller; database_services is
\* still the set that was passed in; a declared store without callers and
\* without outgoing calls is in database_no_ihr_violators and in no other
\* returned collection.
C7_NoIhrViolators ==
    ihr.pc = "returned" =>
        LET G  == ihr.G
            db == ArgSet(ihr.database_services_arg)
        IN  /\ ihr.database_no_ihr_violators =
                   db \ { n \in NodeSet(G) : Cardinality(Callers(G, n)) = 1 }
            /\ ihr.database_services = db
            /\ \A d \in db \cap NodeSet(G) :
                   (Callers(G, d) = {} /\ Callees(G, d) = {}) =>
                       /\ d \in ihr.database_no_ihr_violators
                       /\ ~InPair(d, Pairs(ihr))
                       /\ d \notin ihr.database_call_violators

\* Declared stores: a has no caller, b has the one caller c that also calls
\* itself, so (c, b) is a violator pair; only a is returned.
C7_Witness ==
    /\ ihr.pc = "returned"
    /\ ihr.G.nodes = <<"a", "b", "c">>
    /\ ihr.database_services = {"a", "b"}
    /\ ihr.ihr_violators = {<<"c", "b">>}
    /\ Callers(ihr.G, "a") = {}
    /\ ihr.database_no_ihr_violators = {"a"}

(* ------------------------------- C8 ------------------------------------ *)
\* C8: the returned database_call_violators are the declared stores that
\* are nodes with an outgoing call, whatever their callers.
C8_CallViolators ==
    ihr.pc = "returned" =>
        ihr.database_call_violators =
            { n \in NodeSet(ihr.G) \cap ArgSet(ihr.database_services_arg) :
                  Callees(ihr.G, n) # {} }

\* A declared store with an outgoing call that is also the store of a pair,
\* and one that has two callers.
C8_Witness ==
    /\ ihr.pc = "returned"
    /\ \E n \in ihr.database_call_violators :
           \E q \in Pairs(ihr) : q[2] = n
    /\ \E n \in ihr.database_call_violators :
           Cardinality(Callers(ihr.G, n)) = 2

(* ------------------------------- C9 ------------------------------------ *)
\* C9: what each graph detector returns after visiting the nodes in the
\* graph's order is what it returns for every other order of the nodes.
C9_OrderIndependent ==
    /\ frontend.pc = "returned" =>
           \A order \in Perms(frontend.D.nodes) :
               LET r == FIVisit(FIEntry(frontend.G, frontend.frontend_services_arg),
                                order)
               IN  /\ r.frontend_candidates = frontend.frontend_candidates
                   /\ r.frontend_violators = frontend.frontend_violators
    /\ ihr.pc = "returned" =>
           \A order \in Perms(ihr.D.nodes) :
               LET r == IHRVisit(IHREntry(ihr.G, ihr.database_services_arg), order)
               IN  /\ r.ihr_candidates = ihr.ihr_candidates
                   /\ r.ihr_violators = ihr.ihr_violators
                   /\ r.database_call_violators = ihr.database_call_violators
                   /\ r.database_no_ihr_violators = ihr.database_no_ihr_violators

\* A returned call on three nodes that found two violators.
C9_Witness ==
    /\ frontend.pc = "returned"
    /\ Len(frontend.D.nodes) = 3
    /\ Cardinality(frontend.frontend_violators) = 2
    /\ Cardinality(frontend.frontend_candidates) = 1

(* ------------------------------- C10 ----------------------------------- *)
\* C10: no reported pair names a service as the information holder of
\* itself.
C10_NoSelfHolder ==
    \A q \in Pairs(ihr) : q[1] # q[2]
====
